---- MODULE Spec2Model ----
(***************************************************************************)
(* Model of src/blockdev.c: a blk-mq RAM block driver.                     *)
(*   - init_fn / cleanup_fn : module load and unload (lines 114-183)       *)
(*   - my_queue_rq / do_request : the queue callback (lines 52-108)        *)
(* Host (kernel) calls are modelled by the effect they have on the host    *)
(* objects they act on and are recorded, in call order, in hostCalls.      *)
(***************************************************************************)
EXTENDS Integers, Sequences, FiniteSets, TLC

(* ---------------- program constants ---------------- *)
BUFFER_SIZE == 8
NR_SECTORS == 1024
K_SECTOR_SIZE == 512
SECTOR_SHIFT == 9
EBUSY == 16
ENOMEM == 12

(* ---------------- bounds of the model ---------------- *)
MaxSegs == 2
MaxSector == 1

Ctxs == {"A", "B"}
Bytes == {0, 1}
Sectors == 0..MaxSector
SegLens == {BUFFER_SIZE \div 2, BUFFER_SIZE}
RegisterResults == {254, -EBUSY}

NULL == "NULL"
ERR_PTR == "ERR_PTR"
NoRet == "none"

VARIABLES
    lpc,        \* position of the module loader / init_fn / cleanup_fn
    ret,        \* <<value returned by init_fn>>, empty until it returns
    major_num,  \* static int major_num
    dev,        \* the pointer dev (ptr) and the fields gd, queue, data, size of *dev
    host,       \* host objects: device number, gendisk, queue, tag set, buffer
    store,      \* contents of the kmalloc'ed buffer dev->data points to
    hostCalls,  \* host calls made by init_fn and cleanup_fn, in order
    ctx         \* one record per dispatch context running my_queue_rq

vars == <<lpc, ret, major_num, dev, host, store, hostCalls, ctx>>

(* ---------------- helpers ---------------- *)
RECURSIVE SeqsUpTo(_, _)
SeqsUpTo(S, n) ==
    IF n = 0 THEN {<<>>}
    ELSE LET shorter == SeqsUpTo(S, n - 1)
         IN  shorter \cup {Append(s, x) : s \in {t \in shorter : Len(t) = n - 1}, x \in S}

RECURSIVE SumLen(_)
SumLen(s) == IF s = <<>> THEN 0 ELSE Head(s) + SumLen(Tail(s))

Count(log, name) == Cardinality({i \in 1..Len(log) : log[i] = name})

Pos(log, name) ==
    IF \E i \in 1..Len(log) : log[i] = name
    THEN CHOOSE i \in 1..Len(log) : log[i] = name /\ \A j \in 1..(i - 1) : log[j] # name
    ELSE 0

Fill(n, b) == [i \in 1..n |-> b]

(* ---------------- initial state ---------------- *)
NoDisk ==
    [st |-> "none", published |-> FALSE, major |-> 0, first_minor |-> 0, fops |-> NULL, queue |-> NULL,
     private_data |-> NULL, disk_name |-> "", capacity |-> 0]

IdleCtx ==
    [pc |-> "idle", sector |-> 0, dir |-> "READ", segs |-> <<>>, mem |-> <<>>,
     iter |-> 0, offset |-> 0, data_len |-> 0, nr_bytes |-> 0,
     status |-> "BLK_STS_OK", update_rv |-> FALSE, calls |-> <<>>, cursor |-> <<>>,
     retval |-> NoRet]

Init ==
    /\ lpc = "unloaded"
    /\ ret = <<>>
    /\ major_num = 0
    /\ dev = [ptr |-> NULL, gd |-> NULL, queue |-> NULL, data |-> NULL, size |-> 0]
    /\ host = [registered |-> FALSE, disk |-> NoDisk, queue |-> "none",
               tag_set |-> "none", buffer |-> "none"]
    /\ store = <<>>
    /\ hostCalls = <<>>
    /\ ctx = [c \in Ctxs |-> IdleCtx]

(* ---------------- host calls ---------------- *)
Call(name) == Append(hostCalls, name)

Call2(first, second) == Append(Append(hostCalls, first), second)

\* del_gendisk(gd): the disk stops being visible.
DelGendisk(h) ==
    [h EXCEPT !.disk.published = FALSE]

\* put_disk(gd): drops the reference alloc_disk returned.
PutDisk(h) ==
    [h EXCEPT !.disk.st = IF @ = "allocated" THEN "released" ELSE @]

\* blk_mq_free_tag_set(&dev->tag_set); blk_cleanup_queue(dev->queue)
FreeQueue(h) ==
    [h EXCEPT !.tag_set = IF @ = "allocated" THEN "freed" ELSE @,
              !.queue = IF @ = "live" THEN "cleaned" ELSE @]

\* kfree(p): kfree(NULL) is a no-op.
Kfree(h, p) ==
    [h EXCEPT !.buffer = IF p # NULL /\ @ = "allocated" THEN "freed" ELSE @]

UnregisterBlkdev(h) == [h EXCEPT !.registered = FALSE]

(* ---------------- init_fn ---------------- *)
\* InitRegister with `goto r_disk` for `return -EBUSY`: a failed registration
\* runs the unwinding.
InitRegister_Unwinds ==
    /\ lpc = "unloaded"
    /\ \E r \in RegisterResults :
        /\ major_num' = r
        /\ IF r < 0
           THEN /\ hostCalls' = Call("register_blkdev:fail")
                /\ lpc' = "r_disk"
                /\ host' = host
           ELSE /\ hostCalls' = Call("register_blkdev")
                /\ host' = [host EXCEPT !.registered = TRUE]
                /\ lpc' = "alloc_disk"
    /\ UNCHANGED <<ret, dev, store, ctx>>

\* lines 117-121: major_num = register_blkdev(major_num, BLOCK_DEV_NAME)
InitRegister ==
    /\ lpc = "unloaded"
    /\ \E r \in RegisterResults :
        /\ major_num' = r
        /\ IF r < 0
           THEN /\ hostCalls' = Call("register_blkdev:fail")
                /\ ret' = <<-EBUSY>>
                /\ lpc' = "init_failed"
                /\ host' = host
           ELSE /\ hostCalls' = Call("register_blkdev")
                /\ host' = [host EXCEPT !.registered = TRUE]
                /\ lpc' = "alloc_disk"
                /\ ret' = ret
    /\ UNCHANGED <<dev, store, ctx>>

\* line 31 and line 124: dev is a pointer nobody assigns, so the store of
\* alloc_disk's result into dev->gd is a null dereference; the kernel either
\* faults there (oops, the loading task dies inside init_fn with whatever
\* alloc_disk returned) or the access goes through (InitAllocDisk).
InitDevFault ==
    /\ lpc = "alloc_disk"
    /\ \E ok \in BOOLEAN :
        IF ok
        THEN /\ host' = [host EXCEPT !.disk.st = "allocated"]
             /\ hostCalls' = Call("alloc_disk")
        ELSE /\ host' = host
             /\ hostCalls' = Call("alloc_disk:fail")
    /\ lpc' = "oops"
    /\ UNCHANGED <<ret, major_num, dev, store, ctx>>

\* lines 124-128: dev->gd = alloc_disk(1)
InitAllocDisk ==
    /\ lpc = "alloc_disk"
    /\ \E ok \in BOOLEAN :
        IF ok
        THEN /\ dev' = [dev EXCEPT !.gd = "gd"]
             /\ host' = [host EXCEPT !.disk.st = "allocated"]
             /\ hostCalls' = Call("alloc_disk")
             /\ lpc' = "init_queue"
        ELSE /\ dev' = [dev EXCEPT !.gd = NULL]
             /\ host' = host
             /\ hostCalls' = Call("alloc_disk:fail")
             /\ lpc' = "r_disk"
    /\ UNCHANGED <<ret, major_num, store, ctx>>

\* line 131: dev->queue = blk_mq_init_sq_queue(...); a failure comes back as an
\* error pointer, which is not NULL, and the result is not tested.
InitQueue ==
    /\ lpc = "init_queue"
    /\ \E ok \in BOOLEAN :
        IF ok
        THEN /\ dev' = [dev EXCEPT !.queue = "queue"]
             /\ host' = [host EXCEPT !.queue = "live", !.tag_set = "allocated"]
             /\ hostCalls' = Call("blk_mq_init_sq_queue")
        ELSE /\ dev' = [dev EXCEPT !.queue = ERR_PTR]
             /\ host' = host
             /\ hostCalls' = Call("blk_mq_init_sq_queue:fail")
    /\ lpc' = "setup_gd"
    /\ UNCHANGED <<ret, major_num, store, ctx>>

\* lines 133-140: fill in the gendisk, set the capacity, dev->size
InitSetupGd ==
    /\ lpc = "setup_gd"
    /\ host' = [host EXCEPT !.disk.major = major_num,
                            !.disk.first_minor = 0,
                            !.disk.fops = "my_bops",
                            !.disk.queue = dev.queue,
                            !.disk.private_data = "dev",
                            !.disk.disk_name = "my_block_device",
                            !.disk.capacity = NR_SECTORS]
    /\ dev' = [dev EXCEPT !.size = NR_SECTORS * K_SECTOR_SIZE]
    /\ lpc' = "kmalloc"
    /\ UNCHANGED <<ret, major_num, store, hostCalls, ctx>>

\* lines 141-145: dev->data = kmalloc(BUFFER_SIZE, GFP_KERNEL); the memory is
\* not initialised.
InitKmalloc ==
    /\ lpc = "kmalloc"
    /\ \E ok \in BOOLEAN :
        IF ok
        THEN /\ dev' = [dev EXCEPT !.data = "buffer"]
             /\ host' = [host EXCEPT !.buffer = "allocated"]
             /\ \E b \in Bytes : store' = Fill(BUFFER_SIZE, b)
             /\ hostCalls' = Call("kmalloc")
             /\ lpc' = "add_disk"
        ELSE /\ dev' = [dev EXCEPT !.data = NULL]
             /\ host' = host
             /\ store' = store
             /\ hostCalls' = Call("kmalloc:fail")
             /\ lpc' = "r_blk_init"
    /\ UNCHANGED <<ret, major_num, ctx>>

\* lines 147-152: add_disk(dev->gd); return 0
InitAddDisk ==
    /\ lpc = "add_disk"
    /\ host' = [host EXCEPT !.disk.published = TRUE]
    /\ hostCalls' = Call("add_disk")
    /\ ret' = <<0>>
    /\ lpc' = "loaded"
    /\ UNCHANGED <<major_num, dev, store, ctx>>

\* lines 154-157: r_blk_init: if (dev->gd) del_gendisk(dev->gd)
UnwindDisk ==
    /\ lpc = "r_blk_init"
    /\ IF dev.gd # NULL
       THEN /\ host' = DelGendisk(host)
            /\ hostCalls' = Call("del_gendisk")
       ELSE UNCHANGED <<host, hostCalls>>
    /\ lpc' = "r_queue"
    /\ UNCHANGED <<ret, major_num, dev, store, ctx>>

\* lines 158-161: if (dev->queue) { blk_mq_free_tag_set; blk_cleanup_queue }
UnwindQueue ==
    /\ lpc = "r_queue"
    /\ IF dev.queue # NULL
       THEN /\ host' = FreeQueue(host)
            /\ hostCalls' = Call2("blk_mq_free_tag_set", "blk_cleanup_queue")
       ELSE UNCHANGED <<host, hostCalls>>
    /\ lpc' = "r_disk"
    /\ UNCHANGED <<ret, major_num, dev, store, ctx>>

\* lines 162-164: r_disk: unregister_blkdev(...); return -ENOMEM
UnwindUnregister ==
    /\ lpc = "r_disk"
    /\ host' = UnregisterBlkdev(host)
    /\ hostCalls' = Call("unregister_blkdev")
    /\ ret' = <<-ENOMEM>>
    /\ lpc' = "init_failed"
    /\ UNCHANGED <<major_num, dev, store, ctx>>

(* ---------------- cleanup_fn ---------------- *)
AllIdle == \A c \in Ctxs : ctx[c].pc = "idle"

\* CleanupDisk with del_gendisk left out: the disk is put while still published.
CleanupDisk_NoDelete ==
    /\ lpc = "loaded"
    /\ AllIdle
    /\ IF dev.gd # NULL
       THEN /\ host' = PutDisk(host)
            /\ hostCalls' = Call("put_disk")
       ELSE UNCHANGED <<host, hostCalls>>
    /\ lpc' = "cleanup_queue"
    /\ UNCHANGED <<ret, major_num, dev, store, ctx>>

\* lines 186, 167-173: module_exit runs cleanup_fn on a loaded module that has
\* no user left: if (dev->gd) { del_gendisk(dev->gd); put_disk(dev->gd); }
CleanupDisk ==
    /\ lpc = "loaded"
    /\ AllIdle
    /\ IF dev.gd # NULL
       THEN /\ host' = PutDisk(DelGendisk(host))
            /\ hostCalls' = Call2("del_gendisk", "put_disk")
       ELSE UNCHANGED <<host, hostCalls>>
    /\ lpc' = "cleanup_queue"
    /\ UNCHANGED <<ret, major_num, dev, store, ctx>>

\* lines 174-178: if (dev->queue) { blk_mq_free_tag_set; blk_cleanup_queue }
CleanupQueue ==
    /\ lpc = "cleanup_queue"
    /\ IF dev.queue # NULL
       THEN /\ host' = FreeQueue(host)
            /\ hostCalls' = Call2("blk_mq_free_tag_set", "blk_cleanup_queue")
       ELSE UNCHANGED <<host, hostCalls>>
    /\ lpc' = "cleanup_kfree"
    /\ UNCHANGED <<ret, major_num, dev, store, ctx>>

\* line 179: kfree(dev->data)
CleanupKfree ==
    /\ lpc = "cleanup_kfree"
    /\ host' = Kfree(host, dev.data)
    /\ hostCalls' = Call("kfree")
    /\ lpc' = "cleanup_unregister"
    /\ UNCHANGED <<ret, major_num, dev, store, ctx>>

\* lines 180-183: unregister_blkdev(major_num, BLOCK_DEV_NAME)
CleanupUnregister ==
    /\ lpc = "cleanup_unregister"
    /\ host' = UnregisterBlkdev(host)
    /\ hostCalls' = Call("unregister_blkdev")
    /\ lpc' = "removed"
    /\ UNCHANGED <<ret, major_num, dev, store, ctx>>

(* ---------------- do_request ---------------- *)
\* line 56: loff_t offset = blk_rq_pos(rq) << SECTOR_SHIFT
StartOffset(sector) == sector * 2^SECTOR_SHIFT

\* AdvanceOffset with the slip `=` for `+=`: the cursor is assigned.
AdvanceOffset_Assign(offset, data_len) == data_len

\* line 73: offset += data_len
AdvanceOffset(offset, data_len) == offset + data_len

\* AddBytes with the slip `=` for `+=`: the counter is assigned, not incremented.
AddBytes_Assign(nr_bytes, data_len) == data_len

\* line 74: *nr_bytes += data_len.  nr_bytes is an unsigned int; the lengths of
\* one request's segments add up to blk_rq_bytes(rq), itself an unsigned int,
\* so the addition never wraps.
AddBytes(nr_bytes, data_len) == nr_bytes + data_len

\* line 77: return 0
DoRequestResult == 0

\* ServeStatus with the test inverted: a zero result is taken for a failure.
ServeStatus_Inverted(result, status) == IF result = 0 THEN "BLK_STS_IOERR" ELSE status

\* lines 95-97: if (do_request(rq, &nr_bytes) != 0) status = BLK_STS_IOERR
ServeStatus(result, status) == IF result # 0 THEN "BLK_STS_IOERR" ELSE status

(* ---------------- my_queue_rq ---------------- *)
HostCall(fn, status, bytes) == [fn |-> fn, status |-> status, nr_bytes |-> bytes]

\* The memory of a request's segments: segment i holds bv_len bytes, each of
\* them the byte i, so that the segments of a request differ.
SegMem(lens) == [i \in 1..Len(lens) |-> Fill(lens[i], i)]

\* The queue hands requests to the callback while the disk is published and
\* its queue is live.
\* lines 81-92: nr_bytes = 0; status = BLK_STS_OK; blk_mq_start_request(rq);
\* lines 52-56: entry of do_request, which sets the offset cursor.
QueueRq(c) ==
    /\ ctx[c].pc = "idle"
    /\ host.disk.published
    /\ host.queue = "live"
    /\ \E sector \in Sectors, dir \in {"READ", "WRITE"},
          lens \in SeqsUpTo(SegLens, MaxSegs) :
        ctx' = [ctx EXCEPT ![c] =
                  [pc |-> "segments", sector |-> sector, dir |-> dir, segs |-> lens,
                   mem |-> SegMem(lens),
                   iter |-> 1, offset |-> StartOffset(sector), data_len |-> 0,
                   nr_bytes |-> 0, status |-> "BLK_STS_OK", update_rv |-> FALSE,
                   calls |-> <<HostCall("blk_mq_start_request", "BLK_STS_OK", 0)>>,
                   cursor |-> <<>>, retval |-> NoRet]]
    /\ UNCHANGED <<lpc, ret, major_num, dev, host, store, hostCalls>>

\* DoRequestSegment with the byte counter shared by the contexts (a static
\* counter instead of the caller's local): every context's total grows.
DoRequestSegment_Shared(c) ==
    /\ ctx[c].pc = "segments"
    /\ ctx[c].iter <= Len(ctx[c].segs)
    /\ LET r == ctx[c]
           len == r.segs[r.iter]
       IN  ctx' = [d \in Ctxs |->
                     IF d = c
                     THEN [r EXCEPT !.data_len = len,
                                    !.cursor = Append(@, r.offset),
                                    !.offset = AdvanceOffset(@, len),
                                    !.nr_bytes = AddBytes(@, len),
                                    !.iter = @ + 1]
                     ELSE [ctx[d] EXCEPT !.nr_bytes = AddBytes(@, len)]]
    /\ UNCHANGED <<lpc, ret, major_num, dev, host, store, hostCalls>>

\* lines 62-75: one pass of rq_for_each_segment; the body logs the direction
\* and advances the two counters, it touches neither the segment nor dev->data.
DoRequestSegment(c) ==
    /\ ctx[c].pc = "segments"
    /\ ctx[c].iter <= Len(ctx[c].segs)
    /\ LET r == ctx[c]
           len == r.segs[r.iter]
       IN  ctx' = [ctx EXCEPT ![c] =
                     [r EXCEPT !.data_len = len,
                               !.cursor = Append(@, r.offset),
                               !.offset = AdvanceOffset(@, len),
                               !.nr_bytes = AddBytes(@, len),
                               !.iter = @ + 1]]
    /\ UNCHANGED <<lpc, ret, major_num, dev, host, store, hostCalls>>

\* lines 77, 95-97: the loop is over, do_request returns and my_queue_rq
\* derives the status from the result.
DoRequestReturn(c) ==
    /\ ctx[c].pc = "segments"
    /\ ctx[c].iter > Len(ctx[c].segs)
    /\ ctx' = [ctx EXCEPT ![c].status = ServeStatus(DoRequestResult, @),
                          ![c].pc = "update"]
    /\ UNCHANGED <<lpc, ret, major_num, dev, host, store, hostCalls>>

\* UpdateRequest with the result of blk_update_request ignored: the callback
\* goes on to end the request whatever the host answered.
UpdateRequest_Unchecked(c) ==
    /\ ctx[c].pc = "update"
    /\ \E failed \in BOOLEAN :
        ctx' = [ctx EXCEPT
                  ![c].calls = Append(@, HostCall("blk_update_request",
                                                  ctx[c].status, ctx[c].nr_bytes)),
                  ![c].update_rv = failed,
                  ![c].pc = "end"]
    /\ UNCHANGED <<lpc, ret, major_num, dev, host, store, hostCalls>>

\* lines 99-102: if (blk_update_request(rq, status, nr_bytes)) BUG();
UpdateRequest(c) ==
    /\ ctx[c].pc = "update"
    /\ \E failed \in BOOLEAN :
        ctx' = [ctx EXCEPT
                  ![c].calls = Append(@, HostCall("blk_update_request",
                                                  ctx[c].status, ctx[c].nr_bytes)),
                  ![c].update_rv = failed,
                  ![c].pc = IF failed THEN "BUG" ELSE "end"]
    /\ UNCHANGED <<lpc, ret, major_num, dev, host, store, hostCalls>>

\* EndRequest with the call left out: the callback returns without ending the
\* request.
EndRequest_Skipped(c) ==
    /\ ctx[c].pc = "end"
    /\ ctx' = [ctx EXCEPT ![c].pc = "return"]
    /\ UNCHANGED <<lpc, ret, major_num, dev, host, store, hostCalls>>

\* lines 104-105: __blk_mq_end_request(rq, status)
EndRequest(c) ==
    /\ ctx[c].pc = "end"
    /\ ctx' = [ctx EXCEPT
                 ![c].calls = Append(@, HostCall("__blk_mq_end_request",
                                                 ctx[c].status, 0)),
                 ![c].pc = "return"]
    /\ UNCHANGED <<lpc, ret, major_num, dev, host, store, hostCalls>>

\* line 107: return status
QueueRqReturn(c) ==
    /\ ctx[c].pc = "return"
    /\ ctx' = [ctx EXCEPT ![c].retval = ctx[c].status, ![c].pc = "returned"]
    /\ UNCHANGED <<lpc, ret, major_num, dev, host, store, hostCalls>>

\* The callback has returned: its context is free for the next request.
Recycle(c) ==
    /\ ctx[c].pc = "returned"
    /\ ctx' = [ctx EXCEPT ![c] = IdleCtx]
    /\ UNCHANGED <<lpc, ret, major_num, dev, host, store, hostCalls>>

(* ---------------- specification ---------------- *)
Next ==
    \/ InitRegister
    \/ InitDevFault
    \/ InitAllocDisk
    \/ InitQueue
    \/ InitSetupGd
    \/ InitKmalloc
    \/ InitAddDisk
    \/ UnwindDisk
    \/ UnwindQueue
    \/ UnwindUnregister
    \/ CleanupDisk
    \/ CleanupQueue
    \/ CleanupKfree
    \/ CleanupUnregister
    \/ \E c \in Ctxs : QueueRq(c)
    \/ \E c \in Ctxs : DoRequestSegment(c)
    \/ \E c \in Ctxs : DoRequestReturn(c)
    \/ \E c \in Ctxs : UpdateRequest(c)
    \/ \E c \in Ctxs : EndRequest(c)
    \/ \E c \in Ctxs : QueueRqReturn(c)
    \/ \E c \in Ctxs : Recycle(c)

Spec == Init /\ [][Next]_vars

(* ---------------- properties: the queue callback ---------------- *)
CallNames(c) == [i \in 1..Len(ctx[c].calls) |-> ctx[c].calls[i].fn]

RequestCalls == <<"blk_mq_start_request", "blk_update_request", "__blk_mq_end_request">>

IsPrefix(s, t) == Len(s) <= Len(t) /\ SubSeq(t, 1, Len(s)) = s

Reports(c) == SelectSeq(ctx[c].calls, LAMBDA e : e.fn = "blk_update_request")

Completions(c) == SelectSeq(ctx[c].calls, LAMBDA e : e.fn = "__blk_mq_end_request")

\* The callback is over for the request of context c: it returned or it halted.
Over(c) == ctx[c].pc \in {"returned", "BUG"}

\* C1 as stated: every request handed to my_queue_rq gets blk_mq_start_request,
\* blk_update_request and __blk_mq_end_request, each exactly once and in that
\* order, and none is ended without having been started and reported.
C1_EveryRequestCompleted ==
    \A c \in Ctxs :
        /\ IsPrefix(CallNames(c), RequestCalls)
        /\ Over(c) => CallNames(c) = RequestCalls

\* C1 amended: the three calls are made in that order and each at most once,
\* no request is ended without having been started and reported; a request
\* whose blk_update_request succeeds gets each of the three exactly once, one
\* whose blk_update_request fails is started and reported once and never ended.
C1_CallOrder ==
    \A c \in Ctxs :
        /\ IsPrefix(CallNames(c), RequestCalls)
        /\ ctx[c].pc \in {"return", "returned"} => CallNames(c) = RequestCalls
        /\ ctx[c].pc = "BUG" => CallNames(c) = SubSeq(RequestCalls, 1, 2)

C1_Witness ==
    /\ \E c \in Ctxs : ctx[c].pc = "returned" /\ CallNames(c) = RequestCalls
    /\ \E c \in Ctxs : ctx[c].pc = "BUG"

\* C2: the byte count handed to blk_update_request is the sum of the lengths of
\* the request's segments; the counter starts at 0 and grows by each segment's
\* length as the segment is processed.
C2_ByteCount ==
    \A c \in Ctxs :
        /\ ctx[c].pc = "segments" =>
               ctx[c].nr_bytes = SumLen(SubSeq(ctx[c].segs, 1, ctx[c].iter - 1))
        /\ \A i \in 1..Len(Reports(c)) : Reports(c)[i].nr_bytes = SumLen(ctx[c].segs)

C2_Witness ==
    \E c \in Ctxs :
        /\ Len(ctx[c].segs) = 2
        /\ ctx[c].segs[1] # ctx[c].segs[2]
        /\ Len(Reports(c)) = 1
        /\ Reports(c)[1].nr_bytes = BUFFER_SIZE + BUFFER_SIZE \div 2

\* Segment i of the request of context c lies inside the buffer.
InBounds(c, i) == ctx[c].cursor[i] + ctx[c].segs[i] <= BUFFER_SIZE

\* The bytes of dev->data at device offsets [offset, offset + len)
StoreAt(offset, len) == [j \in 1..len |-> store[offset + j]]

\* C3: once a write request has been ended, the buffer holds each segment's
\* content at the segment's offset; once a read request has been ended, each
\* segment holds the buffer's bytes at the segment's offset.
C3_Transfer ==
    \A c \in Ctxs :
        Len(Completions(c)) > 0 =>
            \A i \in 1..Len(ctx[c].segs) :
                InBounds(c, i) =>
                    ctx[c].mem[i] = StoreAt(ctx[c].cursor[i], ctx[c].segs[i])

\* C4: a request with a segment that ends beyond BUFFER_SIZE is ended with
\* BLK_STS_IOERR, and a request that stays inside the buffer is ended with
\* BLK_STS_OK and reported with its own byte count.
C4_BoundsFault ==
    \A c \in Ctxs :
        \A k \in 1..Len(Completions(c)) :
            IF \E i \in 1..Len(ctx[c].segs) : ~InBounds(c, i)
            THEN Completions(c)[k].status = "BLK_STS_IOERR"
            ELSE /\ Completions(c)[k].status = "BLK_STS_OK"
                 /\ Reports(c)[1].nr_bytes = SumLen(ctx[c].segs)

(* ---------------- properties: module load and unload ---------------- *)
Has(name) == Count(hostCalls, name) > 0

Failures ==
    {"register_blkdev:fail", "alloc_disk:fail", "blk_mq_init_sq_queue:fail", "kmalloc:fail"}

\* The forward steps of init_fn, successful or not.
ForwardCalls ==
    Failures \cup {"register_blkdev", "alloc_disk", "blk_mq_init_sq_queue", "kmalloc", "add_disk"}

\* C5: when init_fn has returned a failure, each resource it acquired has been
\* released exactly once, nothing that was never acquired has been released,
\* and no disk that was never published has been unpublished.
C5_ExactUnwind ==
    (lpc = "init_failed") =>
        /\ Count(hostCalls, "unregister_blkdev") = Count(hostCalls, "register_blkdev")
        /\ Count(hostCalls, "put_disk") = Count(hostCalls, "alloc_disk")
        /\ Count(hostCalls, "blk_cleanup_queue") = Count(hostCalls, "blk_mq_init_sq_queue")
        /\ Count(hostCalls, "blk_mq_free_tag_set") = Count(hostCalls, "blk_mq_init_sq_queue")
        /\ Count(hostCalls, "kfree") = Count(hostCalls, "kmalloc")
        /\ Count(hostCalls, "del_gendisk") = Count(hostCalls, "add_disk")

\* C6: once a step of init_fn has failed, init_fn makes no later forward step,
\* never publishes the disk and returns a failure; it returns 0 only when
\* every step succeeded.
C6_FailureStops ==
    /\ \A i \in 1..Len(hostCalls) :
           hostCalls[i] \in Failures =>
               /\ \A j \in (i + 1)..Len(hostCalls) : hostCalls[j] \notin ForwardCalls
               /\ ~host.disk.published
               /\ ret # <<0>>
    /\ ret = <<0>> => \A i \in 1..Len(hostCalls) : hostCalls[i] \notin Failures

\* C7: whenever the disk is published, a queue was created and is attached to
\* the disk, the capacity and the operations table are set, and the buffer is
\* allocated.
C7_PublishedConfigured ==
    host.disk.published =>
        /\ host.queue = "live"
        /\ host.disk.queue = "queue"
        /\ host.disk.capacity = NR_SECTORS
        /\ host.disk.fops = "my_bops"
        /\ host.buffer = "allocated"

\* C8: the buffer is freed only after the disk has been unpublished and the
\* queue cleaned up: no state has the buffer freed while the disk is published
\* or the queue live, and kfree comes after del_gendisk and blk_cleanup_queue.
C8_BufferFreedLast ==
    /\ host.buffer = "freed" => ~host.disk.published /\ host.queue # "live"
    /\ Has("kfree") =>
           /\ Has("add_disk") =>
                  /\ Has("del_gendisk")
                  /\ Pos(hostCalls, "del_gendisk") < Pos(hostCalls, "kfree")
           /\ Has("blk_mq_init_sq_queue") =>
                  /\ Has("blk_cleanup_queue")
                  /\ Pos(hostCalls, "blk_cleanup_queue") < Pos(hostCalls, "kfree")

C8_Witness ==
    /\ host.buffer = "freed"
    /\ host.queue = "cleaned"
    /\ Has("add_disk")
    /\ lpc = "cleanup_unregister"

\* C9: the queue is created only once the disk handle exists, and the disk
\* handle is not released while the queue is still to be torn down.
C9_QueueWithinDisk ==
    /\ host.queue # "none" => host.disk.st # "none"
    /\ host.disk.st = "released" => host.queue # "live"

\* C10: cleanup_fn releases in the reverse of the order of acquisition:
\* del_gendisk, kfree, the queue and its tag set, put_disk, unregister_blkdev.
C10_ReverseOrder ==
    (lpc = "removed" /\ Has("blk_mq_init_sq_queue")) =>
        /\ Pos(hostCalls, "del_gendisk") < Pos(hostCalls, "kfree")
        /\ Pos(hostCalls, "kfree") < Pos(hostCalls, "blk_mq_free_tag_set")
        /\ Pos(hostCalls, "kfree") < Pos(hostCalls, "blk_cleanup_queue")
        /\ Pos(hostCalls, "blk_mq_free_tag_set") < Pos(hostCalls, "put_disk")
        /\ Pos(hostCalls, "blk_cleanup_queue") < Pos(hostCalls, "put_disk")
        /\ Pos(hostCalls, "put_disk") < Pos(hostCalls, "unregister_blkdev")

(* ---------------- properties: concurrent requests ---------------- *)
\* The device range [first, last) the request of context c covers.
RangeFirst(c) == StartOffset(ctx[c].sector)

RangeLast(c) == StartOffset(ctx[c].sector) + SumLen(ctx[c].segs)

\* The lengths of the segments context c has processed so far.
Processed(c) == SubSeq(ctx[c].segs, 1, Len(ctx[c].cursor))

\* C11: with two requests in flight at once, each is reported with the sum of
\* its own segment lengths and walks its own offset cursor, and a step of one
\* request changes neither the byte total nor the offset of the other.
C11_Independent ==
    /\ [](\A c \in Ctxs :
            /\ ctx[c].nr_bytes = SumLen(Processed(c))
            /\ ctx[c].offset = RangeFirst(c) + SumLen(Processed(c))
            /\ \A i \in 1..Len(Reports(c)) : Reports(c)[i].nr_bytes = SumLen(ctx[c].segs))
    /\ [][\A c, d \in Ctxs :
            (c # d /\ ctx'[c] # ctx[c]) =>
                /\ ctx'[d].nr_bytes = ctx[d].nr_bytes
                /\ ctx'[d].offset = ctx[d].offset]_vars

\* Two requests on disjoint ranges of the advertised capacity, both reported
\* and neither ended yet, with different byte counts.
C11_Witness ==
    \E c, d \in Ctxs :
        /\ c # d
        /\ ctx[c].pc = "end" /\ ctx[d].pc = "end"
        /\ RangeFirst(c) < RangeLast(c) /\ RangeLast(c) <= RangeFirst(d)
        /\ RangeFirst(d) < RangeLast(d) /\ RangeLast(d) <= dev.size
        /\ Reports(c)[1].nr_bytes = SumLen(ctx[c].segs)
        /\ Reports(d)[1].nr_bytes = SumLen(ctx[d].segs)
        /\ SumLen(ctx[c].segs) # SumLen(ctx[d].segs)

(* ---------------- properties: teardown guards ---------------- *)
CleanupStates == {"cleanup_queue", "cleanup_kfree", "cleanup_unregister", "removed"}

\* C12: every release cleanup_fn performs is of a resource that is acquired at
\* that moment: nothing is released twice and nothing that was never acquired
\* is released.
C12_GuardedReleases ==
    lpc \in CleanupStates =>
        /\ Count(hostCalls, "del_gendisk") <= Count(hostCalls, "add_disk")
        /\ Count(hostCalls, "put_disk") <= Count(hostCalls, "alloc_disk")
        /\ Count(hostCalls, "blk_mq_free_tag_set") <= Count(hostCalls, "blk_mq_init_sq_queue")
        /\ Count(hostCalls, "blk_cleanup_queue") <= Count(hostCalls, "blk_mq_init_sq_queue")
        /\ Count(hostCalls, "kfree") <= Count(hostCalls, "kmalloc")
        /\ Count(hostCalls, "unregister_blkdev") <= Count(hostCalls, "register_blkdev")

\* C13: dev->gd is non-null only if register_blkdev succeeded and the disk
\* handle it points to has not been released.
C13_DiskHandleLive ==
    dev.gd # NULL => Has("register_blkdev") /\ host.disk.st = "allocated"

(* ---------------- properties: edge cases of the callback ---------------- *)
\* C14: a request with no segment is reported with 0 bytes and BLK_STS_OK and
\* is ended with BLK_STS_OK.
C14_ZeroSegments ==
    \A c \in Ctxs :
        (ctx[c].pc # "idle" /\ ctx[c].segs = <<>>) =>
            /\ \A i \in 1..Len(Reports(c)) :
                   Reports(c)[i].nr_bytes = 0 /\ Reports(c)[i].status = "BLK_STS_OK"
            /\ \A i \in 1..Len(Completions(c)) : Completions(c)[i].status = "BLK_STS_OK"
            /\ ctx[c].pc = "returned" =>
                   /\ Len(Reports(c)) = 1
                   /\ Len(Completions(c)) = 1
                   /\ ctx[c].retval = "BLK_STS_OK"

C14_Witness ==
    \E c \in Ctxs :
        /\ ctx[c].pc = "returned"
        /\ ctx[c].segs = <<>>
        /\ Reports(c)[1].nr_bytes = 0
        /\ Completions(c)[1].status = "BLK_STS_OK"

\* C15: when blk_update_request returns non-zero the callback halts: the
\* request is never ended and no status is returned to the host.
C15_ReportFailureHalts ==
    /\ [](\A c \in Ctxs :
            ctx[c].update_rv =>
                /\ ctx[c].pc = "BUG"
                /\ Len(Completions(c)) = 0
                /\ ctx[c].retval = NoRet)
    /\ [][\A c \in Ctxs : ctx[c].pc = "BUG" => ctx'[c] = ctx[c]]_vars

C15_Witness ==
    \E c \in Ctxs : ctx[c].update_rv /\ ctx[c].pc = "BUG" /\ Len(Reports(c)) = 1

(* ---------------- properties: failures of init_fn ---------------- *)
\* init_fn is over: it returned or the loading task died in it.
SetupOver == lpc \notin {"unloaded", "alloc_disk", "init_queue", "setup_gd", "kmalloc",
                         "add_disk", "r_blk_init", "r_queue", "r_disk"}

\* C17: when alloc_disk fails, the only release init_fn performs is
\* unregister_blkdev, and it returns a failure.
C17_DiskFailureUnregisters ==
    Has("alloc_disk:fail") =>
        /\ IsPrefix(hostCalls, <<"register_blkdev", "alloc_disk:fail", "unregister_blkdev">>)
        /\ SetupOver =>
               /\ Has("unregister_blkdev")
               /\ ~host.registered
               /\ ret = <<-ENOMEM>>

\* C18: when register_blkdev fails, init_fn returns a failure at once: it has
\* acquired nothing and makes no release or unregister call.
C18_RegisterFailureAborts ==
    Has("register_blkdev:fail") =>
        /\ lpc = "init_failed"
        /\ hostCalls = <<"register_blkdev:fail">>
        /\ ret = <<-EBUSY>>
        /\ ~host.registered
        /\ host.disk.st = "none" /\ host.queue = "none"
        /\ host.tag_set = "none" /\ host.buffer = "none"

C18_Witness ==
    /\ Has("register_blkdev:fail")
    /\ lpc = "init_failed"
    /\ major_num < 0

(* ---------------- properties: the offset cursor ---------------- *)
\* C19: the cursor starts at sector << SECTOR_SHIFT, the segments are taken in
\* the order of the request, segment i is processed at the start offset plus
\* the lengths of the segments before it, and after the last segment the
\* cursor is the start offset plus the sum of all the lengths.
C19_OffsetCursor ==
    \A c \in Ctxs :
        ctx[c].pc # "idle" =>
            /\ Len(ctx[c].cursor) = ctx[c].iter - 1
            /\ ctx[c].iter > 1 => ctx[c].data_len = ctx[c].segs[ctx[c].iter - 1]
            /\ \A i \in 1..Len(ctx[c].cursor) :
                   ctx[c].cursor[i] =
                       ctx[c].sector * 2^SECTOR_SHIFT + SumLen(SubSeq(ctx[c].segs, 1, i - 1))
            /\ ctx[c].offset =
                   ctx[c].sector * 2^SECTOR_SHIFT + SumLen(SubSeq(ctx[c].segs, 1, ctx[c].iter - 1))
            /\ ctx[c].pc # "segments" =>
                   ctx[c].offset = ctx[c].sector * 2^SECTOR_SHIFT + SumLen(ctx[c].segs)

C19_Witness ==
    \E c \in Ctxs :
        /\ ctx[c].pc = "update"
        /\ ctx[c].sector = 1
        /\ ctx[c].segs = <<BUFFER_SIZE \div 2, BUFFER_SIZE>>
        /\ ctx[c].cursor = <<K_SECTOR_SIZE, K_SECTOR_SIZE + BUFFER_SIZE \div 2>>
        /\ ctx[c].offset = K_SECTOR_SIZE + BUFFER_SIZE + BUFFER_SIZE \div 2

(* ---------------- properties: the device descriptor ---------------- *)
\* init_fn or cleanup_fn has gone through dev to reach a field of *dev.
FieldAccessed == lpc \notin {"unloaded", "alloc_disk"} /\ ~Has("register_blkdev:fail")

\* C20: no field of the descriptor is read or written while the descriptor
\* itself has not been allocated.
C20_DescriptorAllocated ==
    FieldAccessed => dev.ptr # NULL

====
